---- MODULE Spec2Model ----
(***************************************************************************)
(* Model of egui's candlestick plot element,                               *)
(* src/egui/src/widgets/plot/items/candle_elem.rs: the Candle value, the   *)
(* CandleElem builder, the RectElement capability methods, add_shapes and  *)
(* add_rulers_and_text.                                                    *)
(*                                                                         *)
(* Every coordinate of the source is an f64.  An f64 is modelled by its    *)
(* IEEE 754 binary64 fields, <<s, e, h, m, l>>: the sign bit s, the biased *)
(* exponent e in 0..2047 and the 52 fraction bits in three limbs, h of 12  *)
(* bits, m and l of 20 bits.  Every f64 is one such tuple (zeros of both   *)
(* signs, subnormals, infinities; the NaNs are held as one), and `+`, `-`  *)
(* and `/ 2.0` compute the exact result and round it to nearest, ties to   *)
(* even, as the hardware does.                                             *)
(***************************************************************************)
EXTENDS Integers, Sequences, FiniteSets, TLC

(***************************************************************************)
(* Natural numbers of any size, for the exact results: little-endian       *)
(* sequences of limbs in 0..Limb-1 without a zero top limb; <<>> is 0.     *)
(***************************************************************************)
LimbBits == 20

Limb == 2^LimbBits

\* The i-th limb, 0 above the top one.
At(a, i) == IF i <= Len(a) THEN a[i] ELSE 0

RECURSIVE BigTrim(_)
BigTrim(a) ==
    IF a = <<>> THEN <<>>
    ELSE IF a[Len(a)] = 0 THEN BigTrim(SubSeq(a, 1, Len(a) - 1))
    ELSE a

\* The number of a non-negative machine integer.
BigOf(n) == BigTrim(<<n % Limb, n \div Limb>>)

RECURSIVE AddFrom(_, _, _, _)
AddFrom(a, b, i, carry) ==
    IF i > Len(a) /\ i > Len(b)
    THEN IF carry = 0 THEN <<>> ELSE <<carry>>
    ELSE LET t == At(a, i) + At(b, i) + carry
         IN  <<t % Limb>> \o AddFrom(a, b, i + 1, t \div Limb)

BigAdd(a, b) == AddFrom(a, b, 1, 0)

RECURSIVE SubFrom(_, _, _, _)
SubFrom(a, b, i, borrow) ==
    IF i > Len(a) THEN <<>>
    ELSE LET t == a[i] - At(b, i) - borrow
         IN  <<t % Limb>> \o SubFrom(a, b, i + 1, IF t < 0 THEN 1 ELSE 0)

\* a - b, for a >= b.
BigSub(a, b) == BigTrim(SubFrom(a, b, 1, 0))

RECURSIVE LessFrom(_, _, _)
LessFrom(a, b, i) ==
    IF i = 0 THEN FALSE
    ELSE IF a[i] # b[i] THEN a[i] < b[i]
    ELSE LessFrom(a, b, i - 1)

BigLess(a, b) ==
    IF Len(a) # Len(b) THEN Len(a) < Len(b) ELSE LessFrom(a, b, Len(a))

BigLeq(a, b) == a = b \/ BigLess(a, b)

RECURSIVE BitLen(_)
BitLen(n) == IF n = 0 THEN 0 ELSE 1 + BitLen(n \div 2)

\* The number of significant bits.
BigBitLen(a) ==
    IF a = <<>> THEN 0 ELSE LimbBits * (Len(a) - 1) + BitLen(a[Len(a)])

RECURSIVE ShlFrom(_, _, _, _)
ShlFrom(a, r, i, carry) ==
    IF i > Len(a) THEN IF carry = 0 THEN <<>> ELSE <<carry>>
    ELSE <<(a[i] % 2^(LimbBits - r)) * 2^r + carry>>
         \o ShlFrom(a, r, i + 1, a[i] \div 2^(LimbBits - r))

\* a * 2^k
BigShl(a, k) ==
    IF a = <<>> THEN <<>>
    ELSE [i \in 1..(k \div LimbBits) |-> 0]
         \o (IF k % LimbBits = 0 THEN a ELSE ShlFrom(a, k % LimbBits, 1, 0))

\* floor(a / 2^k)
BigShr(a, k) ==
    LET q == k \div LimbBits
        r == k % LimbBits
        b == IF q >= Len(a) THEN <<>> ELSE SubSeq(a, q + 1, Len(a))
    IN  IF r = 0 THEN b
        ELSE BigTrim([i \in 1..Len(b) |->
                        (b[i] \div 2^r) + (At(b, i + 1) % 2^r) * 2^(LimbBits - r)])

\* Bit j of a (bit 0 the lowest).
BigBit(a, j) == (At(a, (j \div LimbBits) + 1) \div 2^(j % LimbBits)) % 2

\* Whether a bit below bit j is set.
BigLowBits(a, j) ==
    \E i \in 1..Len(a) :
        \/ i <= j \div LimbBits /\ a[i] # 0
        \/ i = (j \div LimbBits) + 1 /\ a[i] % 2^(j % LimbBits) # 0

\* a / 2^k rounded to the nearest integer, ties to even (k >= 1).
BigRoundShr(a, k) ==
    LET q  == BigShr(a, k)
        up == BigBit(a, k - 1) = 1 /\ (BigLowBits(a, k - 1) \/ At(q, 1) % 2 = 1)
    IN  IF up THEN BigAdd(q, <<1>>) ELSE q

RECURSIVE MulFrom(_, _, _, _)
MulFrom(a, c, i, carry) ==
    IF i > Len(a) THEN IF carry = 0 THEN <<>> ELSE <<carry>>
    ELSE LET t == a[i] * c + carry
         IN  <<t % Limb>> \o MulFrom(a, c, i + 1, t \div Limb)

\* a * 10^d
RECURSIVE Mul10(_, _)
Mul10(a, d) == IF d = 0 THEN a ELSE Mul10(MulFrom(a, 10, 1, 0), d - 1)

\* The limbs of floor(a / c) from limb i down, highest first, then a mod c,
\* for a small c; rem is the remainder so far.
RECURSIVE DivFrom(_, _, _, _)
DivFrom(a, c, i, rem) ==
    IF i = 0 THEN <<rem>>
    ELSE LET t == rem * Limb + a[i]
         IN  <<t \div c>> \o DivFrom(a, c, i - 1, t % c)

\* <<floor(a / c), a mod c>>
BigDivMod(a, c) ==
    LET r == DivFrom(a, c, Len(a), 0)
    IN  <<BigTrim([j \in 1..Len(a) |-> r[Len(a) + 1 - j]]), r[Len(a) + 1]>>

(***************************************************************************)
(* f64                                                                     *)
(***************************************************************************)
\* The implicit leading bit of a normal number, in the top limb.
TopBit == 2^12

\* The exponent field of the infinities and the NaNs.
ExpSpecial == 2047

FNaN == <<0, ExpSpecial, TopBit \div 2, 0, 0>>

FInf(s) == <<s, ExpSpecial, 0, 0, 0>>

FZero(s) == <<s, 0, 0, 0, 0>>

FIsNaN(u) == u[2] = ExpSpecial /\ <<u[3], u[4], u[5]>> # <<0, 0, 0>>

FIsInf(u) == u[2] = ExpSpecial /\ <<u[3], u[4], u[5]>> = <<0, 0, 0>>

FIsZero(u) == u[2] = 0 /\ <<u[3], u[4], u[5]>> = <<0, 0, 0>>

\* A finite f64 is (-1)^s * FMant * 2^FExp.
FMant(u) ==
    IF u[2] = 0 THEN BigTrim(<<u[5], u[4], u[3]>>)
    ELSE <<u[5], u[4], u[3] + TopBit>>

FExp(u) == IF u[2] = 0 THEN -1074 ELSE u[2] - 1075

\* The nearest f64 of (-1)^s * n * 2^x, ties to even: n keeps its 53 highest
\* bits, fewer below 2^-1022 (subnormal), and overflows to an infinity.
FRound(s, n, x) ==
    IF n = <<>> THEN FZero(s)
    ELSE LET len == BigBitLen(n)
             x1  == IF x + len - 53 < -1074 THEN -1074 ELSE x + len - 53
             n1  == IF x1 <= x THEN BigShl(n, x - x1) ELSE BigRoundShr(n, x1 - x)
             \* the rounding carried into a 54th bit
             x2  == IF BigBitLen(n1) = 54 THEN x1 + 1 ELSE x1
             n2  == IF BigBitLen(n1) = 54 THEN BigShr(n1, 1) ELSE n1
         IN  IF BigBitLen(n2) < 53 THEN <<s, 0, At(n2, 3), At(n2, 2), At(n2, 1)>>
             ELSE IF x2 + 1075 >= ExpSpecial THEN FInf(s)
             ELSE <<s, x2 + 1075, n2[3] - TopBit, n2[2], n2[1]>>

\* f64 unary minus (the NaN stays the one NaN).
FNeg(u) == IF FIsNaN(u) THEN FNaN ELSE <<1 - u[1], u[2], u[3], u[4], u[5]>>

FIsNeg(u) == u[1] = 1

\* f64::abs
FAbs(u) == IF FIsNaN(u) THEN FNaN ELSE <<0, u[2], u[3], u[4], u[5]>>

\* The order of the magnitudes of two non-NaN f64.
MagLess(u, v) ==
    \/ u[2] < v[2]
    \/ u[2] = v[2] /\ u[3] < v[3]
    \/ u[2] = v[2] /\ u[3] = v[3] /\ u[4] < v[4]
    \/ u[2] = v[2] /\ u[3] = v[3] /\ u[4] = v[4] /\ u[5] < v[5]

\* u < v on f64: false with a NaN, and -0.0 is not below 0.0.
FLess(u, v) ==
    /\ ~FIsNaN(u) /\ ~FIsNaN(v)
    /\ ~(FIsZero(u) /\ FIsZero(v))
    /\ \/ u[1] = 1 /\ v[1] = 0
       \/ u[1] = 0 /\ v[1] = 0 /\ MagLess(u, v)
       \/ u[1] = 1 /\ v[1] = 1 /\ MagLess(v, u)

\* u == v on f64.
FEq(u, v) ==
    /\ ~FIsNaN(u) /\ ~FIsNaN(v)
    /\ u = v \/ (FIsZero(u) /\ FIsZero(v))

FLeq(u, v) == FEq(u, v) \/ FLess(u, v)

\* The exact sum of two finite f64, <<sign, magnitude, exponent>>: the
\* value (-1)^sign * magnitude * 2^exponent.  A sum that is zero has the
\* sign of its terms when they agree and is +0 otherwise.
ExactAdd(u, v) ==
    LET x  == IF FExp(u) < FExp(v) THEN FExp(u) ELSE FExp(v)
        a  == BigShl(FMant(u), FExp(u) - x)
        b  == BigShl(FMant(v), FExp(v) - x)
    IN  IF u[1] = v[1] THEN <<u[1], BigAdd(a, b), x>>
        ELSE IF a = b THEN <<0, <<>>, x>>
        ELSE IF BigLess(b, a) THEN <<u[1], BigSub(a, b), x>>
        ELSE <<v[1], BigSub(b, a), x>>

\* f64 `+`
FAdd(u, v) ==
    IF FIsNaN(u) \/ FIsNaN(v) THEN FNaN
    ELSE IF FIsInf(u) THEN (IF FIsInf(v) /\ u[1] # v[1] THEN FNaN ELSE u)
    ELSE IF FIsInf(v) THEN v
    ELSE LET t == ExactAdd(u, v) IN FRound(t[1], t[2], t[3])

\* f64 `-`
FSub(u, v) == FAdd(u, FNeg(v))

\* f64 `/ 2.0`: exact but for a subnormal result, which is rounded.
FHalf(u) ==
    IF FIsNaN(u) THEN FNaN
    ELSE IF FIsInf(u) THEN u
    ELSE FRound(u[1], FMant(u), FExp(u) - 1)

\* f64::max, as the set of the results a build may give: the other operand
\* when one is a NaN, else the larger; of two zeros of different sign
\* either one, which zero being left open by f64::max and differing
\* between call sites of one optimised build.
FMax(u, v) ==
    IF FIsNaN(u) THEN {v}
    ELSE IF FIsNaN(v) THEN {u}
    ELSE IF FLess(u, v) THEN {v}
    ELSE IF FLess(v, u) THEN {u}
    ELSE {u, v}

\* The f64 of a machine integer.
FInt(n) == IF n < 0 THEN FRound(1, BigOf(-n), 0) ELSE FRound(0, BigOf(n), 0)

(***************************************************************************)
(* The f64 literals the model uses, as the nearest binary64 of the decimal *)
(***************************************************************************)
F_0_0         == <<0, 0, 0, 0, 0>>

F_0_25        == <<0, 1021, 0, 0, 0>>

F_0_15        == <<0, 1020, 819, 209715, 209715>>

F_0_4         == <<0, 1021, 2457, 629145, 629146>>

F_0_5         == <<0, 1022, 0, 0, 0>>

F_0_1         == <<0, 1019, 2457, 629145, 629146>>

F_0_005       == <<0, 1015, 1146, 922746, 922747>>

F_9_1         == <<0, 1026, 563, 209715, 209715>>

F_12_25       == <<0, 1026, 2176, 0, 0>>

F_11_5        == <<0, 1026, 1792, 0, 0>>

F_0_05        == <<0, 1018, 2457, 629145, 629146>>

F_0_01        == <<0, 1016, 1146, 922746, 922747>>

F_2_8         == <<0, 1024, 1638, 419430, 419430>>

F_3_2         == <<0, 1024, 2457, 629145, 629146>>

F_2_5         == <<0, 1024, 1024, 0, 0>>

\* 2^-20, exact.
F_2m20        == <<0, 1003, 0, 0, 0>>

\* 0.09999999999999999 and 0.09999999999999996, the first and the third f64
\* below that of 0.1, and 0.009999999999999998, the first below that of 0.01.
F_0_1_Below1  == <<0, 1019, 2457, 629145, 629145>>

F_0_1_Below3  == <<0, 1019, 2457, 629145, 629143>>

F_0_01_Below1 == <<0, 1016, 1146, 922746, 922746>>

(***************************************************************************)
(* f64 -> text, as format!("{:.decimals$}") prints an f64: the exact        *)
(* decimal expansion of the binary value, cut after `decimals` digits and  *)
(* rounded to nearest, ties to even; a sign for a set sign bit.            *)
(***************************************************************************)
DigitChars == <<"0", "1", "2", "3", "4", "5", "6", "7", "8", "9">>

\* The three decimal digits of a number below 1000.
Digits3(r) ==
    <<DigitChars[(r \div 100) + 1],
      DigitChars[((r \div 10) % 10) + 1],
      DigitChars[(r % 10) + 1]>>

RECURSIVE StripZeros(_)
StripZeros(ds) ==
    IF Len(ds) > 1 /\ ds[1] = "0" THEN StripZeros(SubSeq(ds, 2, Len(ds))) ELSE ds

\* The decimal digits of a natural number, three at a time.
RECURSIVE NatDigits(_)
NatDigits(a) ==
    IF Len(a) <= 1 /\ At(a, 1) < 1000 THEN StripZeros(Digits3(At(a, 1)))
    ELSE LET qr == BigDivMod(a, 1000)
         IN  NatDigits(qr[1]) \o Digits3(qr[2])

\* |v| * 10^d rounded to the nearest integer, ties to even, v finite.
ScaledDigits(v, d) ==
    IF FExp(v) >= 0 THEN BigShl(Mul10(FMant(v), d), FExp(v))
    ELSE BigRoundShr(Mul10(FMant(v), d), -FExp(v))

RECURSIVE Zeros(_)
Zeros(k) == IF k <= 0 THEN <<>> ELSE <<"0">> \o Zeros(k - 1)

FormatFixed(v, d) ==
    IF FIsNaN(v) THEN <<"N", "a", "N">>
    ELSE (IF FIsNeg(v) THEN <<"-">> ELSE <<>>)
         \o IF FIsInf(v) THEN <<"i", "n", "f">>
            ELSE LET raw == NatDigits(ScaledDigits(v, d))
                     ds  == Zeros(d + 1 - Len(raw)) \o raw
                     ip  == SubSeq(ds, 1, Len(ds) - d)
                     fp  == SubSeq(ds, Len(ds) - d + 1, Len(ds))
                 IN  ip \o (IF d = 0 THEN <<>> ELSE <<".">> \o fp)

(***************************************************************************)
(* The decimal count of default_values_format:                             *)
(*   ((-scale[1].abs().log10()).ceil().at_least(0.0) as usize).at_most(6)  *)
(* With L = scale[1].abs().log10(), the count is the number of n in 0..5   *)
(* with L < -n: ceil(-L) is then above n, at_least(0.0) lifts a negative   *)
(* ceiling (and a NaN) to 0, `as usize` saturates +inf (scale 0) and       *)
(* at_most(6) caps it.                                                     *)
(***************************************************************************)
\* f64::log10 rounds its result to an f64, so an argument just below 10^-n
\* has the logarithm -n itself: the least f64 whose log10 is not below -n,
\* for n = 0..5 (1.0, and 2, 3, 2, 8 and 6 values below the f64 of 0.1,
\* 0.01, 0.001, 0.0001 and 0.00001).
LeastWithLog10 ==
    <<<<0, 1023, 0, 0, 0>>,
      <<0, 1019, 2457, 629145, 629144>>,
      <<0, 1016, 1146, 922746, 922744>>,
      <<0, 1013, 98, 318767, 109050>>,
      <<0, 1009, 2614, 929457, 803621>>,
      <<0, 1006, 1272, 743566, 223467>>>>

\* a.log10() < -n on f64, for a = |scale| (not below for a NaN).
Log10Below(a, n) == FLess(a, LeastWithLog10[n + 1])

\* A slip of the decimal count: the sign of the scale not dropped, so that
\* the logarithm of a negative scale is a NaN and the count 0.
YDecimals_NoAbs(scale) ==
    IF FLess(scale, FZero(0)) THEN 0
    ELSE Cardinality({n \in 0..5 : Log10Below(scale, n)})

YDecimals(scale) == Cardinality({n \in 0..5 : Log10Below(FAbs(scale), n)})

(***************************************************************************)
(* Candle and CandleElem                                                   *)
(***************************************************************************)
\* Candle::new: the five fields stored verbatim.
Candle(open, high, low, close, volume) ==
    [open |-> open, high |-> high, low |-> low, close |-> close, volume |-> volume]

\* epaint's Color32 and Stroke, as far as this file handles them: a colour is
\* a name and whether the highlight helper emphasized it, a stroke a width
\* (in points) and a colour.
Color32(name) == [name |-> name, emphasized |-> FALSE]

TRANSPARENT == Color32("TRANSPARENT")

Stroke(width, color) == [width |-> width, color |-> color]

\* CandleElem::new
new(candle) ==
    [x             |-> F_0_0,
     candle        |-> candle,
     candle_width  |-> F_0_25,
     whisker_width |-> F_0_15,
     stroke        |-> Stroke(1, TRANSPARENT),
     fill          |-> TRANSPARENT]

\* The builder methods: each takes self by value and returns it with one
\* field assigned.
stroke(self, s) == [self EXCEPT !.stroke = s]

fill(self, color) == [self EXCEPT !.fill = color]

\* A slip of candle_width: the width given to both width fields.
candle_width_BothWidths(self, width) ==
    [self EXCEPT !.candle_width = width, !.whisker_width = width]

candle_width(self, width) == [self EXCEPT !.candle_width = width]

whisker_width(self, width) == [self EXCEPT !.whisker_width = width]

(***************************************************************************)
(* The collaborators of super:: and crate::plot this file calls            *)
(***************************************************************************)
PlotPoint(x, y) == [x |-> x, y |-> y]

\* RectElement::orientation
orientation(self) == "Vertical"

\* RectElement::point_at (the trait's provided method): argument along the
\* category axis, value along the value axis.
point_at(self, argument, value) ==
    IF orientation(self) = "Horizontal"
    THEN PlotPoint(value, argument)
    ELSE PlotPoint(argument, value)

\* highlighted_color: the emphasized (stroke, fill) pair.
highlighted_color(s, f) ==
    <<[s EXCEPT !.width = 2 * @, !.color.emphasized = TRUE],
      [f EXCEPT !.emphasized = TRUE]>>

\* ScreenTransform: an opaque data -> screen map, known by its name and its
\* scale vector; a screen position is the point and the transform it went
\* through, a screen rectangle the two positions it was built from.
position_from_point(transform, value) ==
    [transform |-> transform.name, point |-> value]

rect_from_values(transform, value1, value2) ==
    [corner1 |-> position_from_point(transform, value1),
     corner2 |-> position_from_point(transform, value2)]

dvalue_dpos(transform) == transform.dvalue_dpos

\* epaint's Shape::Rect(RectShape {..}) and Shape::line_segment.
RectShape(rect, rounding, f, s) ==
    [kind |-> "Rect", rect |-> rect, rounding |-> rounding, fill |-> f, stroke |-> s]

line_segment(points, s) ==
    [kind |-> "LineSegment", points |-> points, stroke |-> s]

(***************************************************************************)
(* add_shapes                                                              *)
(***************************************************************************)
\* The two primitives of add_shapes for a (stroke, fill) pair and a body
\* width: the body rectangle, then the whisker.
BodyAndWhisker(self, transform, sf, width) ==
    <<RectShape(rect_from_values(transform,
                    point_at(self, FSub(self.x, FHalf(width)), self.candle.open),
                    point_at(self, FAdd(self.x, FHalf(width)), self.candle.close)),
                "none", sf[2], sf[1]),
      line_segment(
          <<position_from_point(transform, point_at(self, self.x, self.candle.low)),
            position_from_point(transform, point_at(self, self.x, self.candle.high))>>,
          sf[1])>>

\* A slip of add_shapes: the list is replaced, not appended to.
add_shapes_Replaces(self, transform, highlighted, shapes) ==
    BodyAndWhisker(self, transform,
                   IF highlighted THEN highlighted_color(self.stroke, self.fill)
                   ELSE <<self.stroke, self.fill>>,
                   self.candle_width)

\* A slip of add_shapes: the whisker drawn with the element's own stroke
\* even when highlighted.
add_shapes_PlainWhisker(self, transform, highlighted, shapes) ==
    LET sf == IF highlighted THEN highlighted_color(self.stroke, self.fill)
              ELSE <<self.stroke, self.fill>>
        two == BodyAndWhisker(self, transform, sf, self.candle_width)
    IN  shapes \o <<two[1], [two[2] EXCEPT !.stroke = self.stroke]>>

\* A slip of add_shapes: the body as wide as whisker_width.
add_shapes_WhiskerWideBody(self, transform, highlighted, shapes) ==
    shapes \o BodyAndWhisker(self, transform,
                   IF highlighted THEN highlighted_color(self.stroke, self.fill)
                   ELSE <<self.stroke, self.fill>>,
                   self.whisker_width)

add_shapes(self, transform, highlighted, shapes) ==
    LET sf   == IF highlighted
                THEN highlighted_color(self.stroke, self.fill)
                ELSE <<self.stroke, self.fill>>
        rect == rect_from_values(transform,
                    point_at(self, FSub(self.x, FHalf(self.candle_width)), self.candle.open),
                    point_at(self, FAdd(self.x, FHalf(self.candle_width)), self.candle.close))
        whisker == line_segment(
                    <<position_from_point(transform, point_at(self, self.x, self.candle.low)),
                      position_from_point(transform, point_at(self, self.x, self.candle.high))>>,
                    sf[1])
    IN  Append(Append(shapes, RectShape(rect, "none", sf[2], sf[1])), whisker)

(***************************************************************************)
(* impl RectElement for CandleElem                                         *)
(***************************************************************************)
name(self) == ""

\* A slip of bounds_min: the body's width alone, the whisker's ignored.
bounds_min_BodyOnly(self) ==
    {point_at(self, FSub(self.x, FHalf(self.candle_width)), self.candle.low)}

\* bounds_min, as the set of the points it may return: one point for each
\* result of the max.
bounds_min(self) ==
    {LET x     == FSub(self.x, FHalf(w))
         value == self.candle.low
     IN  point_at(self, x, value) : w \in FMax(self.candle_width, self.whisker_width)}

\* A slip of bounds_max: the smaller of the two widths.
bounds_max_Narrower(self) ==
    LET w == IF FLess(self.candle_width, self.whisker_width)
             THEN self.candle_width ELSE self.whisker_width
    IN  {point_at(self, FAdd(self.x, FHalf(w)), self.candle.high)}

\* bounds_max, as the set of the points it may return.
bounds_max(self) ==
    {LET x     == FAdd(self.x, FHalf(w))
         value == self.candle.high
     IN  point_at(self, x, value) : w \in FMax(self.candle_width, self.whisker_width)}

\* A slip of values_with_ruler: low listed before high.
values_with_ruler_LowFirst(self) ==
    <<point_at(self, self.x, self.candle.open),
      point_at(self, self.x, self.candle.low),
      point_at(self, self.x, self.candle.high),
      point_at(self, self.x, self.candle.close),
      point_at(self, self.x, self.candle.volume)>>

values_with_ruler(self) ==
    LET open   == point_at(self, self.x, self.candle.open)
        high   == point_at(self, self.x, self.candle.high)
        low    == point_at(self, self.x, self.candle.low)
        close  == point_at(self, self.x, self.candle.close)
        volume == point_at(self, self.x, self.candle.volume)
    IN  <<open, high, low, close, volume>>

corner_value(self) == point_at(self, self.x, self.candle.high)

\* The literal pieces of the format string, character by character.
NL == "\n"

TxtOpen == <<"O", "p", "e", "n", " ", "=", " ">>

TxtHigh == <<"H", "i", "g", "h", " ", "=", " ">>

TxtLow == <<"L", "o", "w", " ", "=", " ">>

TxtClose == <<"C", "l", "o", "s", "e", " ", "=", " ">>

TxtVolume == <<"V", "o", "l", "u", "m", "e", " ", "=", " ">>

default_values_format(self, transform) ==
    LET scale      == dvalue_dpos(transform)
        y_decimals == YDecimals(scale[2])
    IN  <<NL>> \o TxtOpen   \o FormatFixed(self.candle.open, y_decimals)
     \o <<NL>> \o TxtHigh   \o FormatFixed(self.candle.high, y_decimals)
     \o <<NL>> \o TxtLow    \o FormatFixed(self.candle.low, y_decimals)
     \o <<NL>> \o TxtClose  \o FormatFixed(self.candle.close, y_decimals)
     \o <<NL>> \o TxtVolume \o FormatFixed(self.candle.volume, y_decimals)

(***************************************************************************)
(* add_rulers_and_text                                                     *)
(***************************************************************************)
\* Option<T>: None is <<>>, Some(v) is <<v>>.
None == <<>>

Some(v) == <<v>>

\* A call fmt(self, parent) of the parent's formatter closure; the text it
\* returns is that formatter's for that element and parent.
FormatterCall(fmt, self, parent) ==
    [formatter |-> fmt, elem |-> self, parent |-> parent.name]

\* A call super::add_rulers_and_text(self, plot, text, shapes) of the shared
\* ruler routine, with the list as it is handed over.
RulerCall(self, plot, text, shapes) ==
    [elem |-> self, plot |-> plot, text |-> text, shapes |-> shapes]

\* What the shared ruler routine may push for a call.  The routine is not
\* in this file: it draws crosshair guide lines at the element's ruler
\* points and the label, with the text it was given, near the corner
\* anchor; the plot configuration, which this file only passes on, may
\* have it leave out the lines, the label or both.
RulerDrawings(self, plot, text) ==
    LET at(i) == [kind |-> "RulerLine", plot |-> plot, value |-> values_with_ruler(self)[i]]
        lines == <<at(1), at(2), at(3), at(4), at(5)>>
        label == <<[kind |-> "Text", plot |-> plot, anchor |-> corner_value(self),
                    text |-> text]>>
    IN  {<<>>, lines, label, lines \o label}

\* A slip of add_rulers_and_text: an early return when there is no
\* formatter, the shared routine never called.
add_rulers_and_text_NeedsFormatter(self, parent, plot, shapes) ==
    IF parent.element_formatter = None
    THEN [formatter |-> None, rulers |-> <<>>, shapes |-> {shapes}]
    ELSE LET text == Some(FormatterCall(parent.element_formatter[1], self, parent))
         IN  [formatter |-> text,
              rulers    |-> <<RulerCall(self, plot, text, shapes)>>,
              shapes    |-> {shapes \o d : d \in RulerDrawings(self, plot, text)}]

\* The calls add_rulers_and_text makes, in order: of the formatter (by
\* Option::map, one if there is a formatter) and of the shared routine,
\* which is handed the list; and the lists that call may leave.
add_rulers_and_text(self, parent, plot, shapes) ==
    LET text == IF parent.element_formatter = None
                THEN None
                ELSE Some(FormatterCall(parent.element_formatter[1], self, parent))
    IN  [formatter |-> text,
         rulers    |-> <<RulerCall(self, plot, text, shapes)>>,
         shapes    |-> {shapes \o d : d \in RulerDrawings(self, plot, text)}]

(***************************************************************************)
(* The values the model draws its inputs from                              *)
(***************************************************************************)
\* The spec's example candle (bullish), a bearish one with fractional
\* prices, and one with small and negative values.
CandleBull == Candle(FInt(10), FInt(12), FInt(9), FInt(11), FInt(500))

CandleBear == Candle(F_11_5, F_12_25, F_9_1, FInt(10), FInt(250))

CandleTiny == Candle(F_0_4, F_0_5, FNeg(F_0_1), F_0_15, F_0_0)

Candles == {CandleBull, CandleBear}

Xs == {FInt(3)}

CandleWidths == {F_0_4, F_0_0, FNeg(F_0_4)}

WhiskerWidths == {F_0_5, FNeg(F_0_1)}

Strokes == {Stroke(2, Color32("RED"))}

Fills == {Color32("GREEN")}

Transform(n, sx, sy) == [name |-> n, dvalue_dpos |-> <<sx, sy>>]

Transforms == {Transform("T1", F_0_1, F_0_05), Transform("T2", FInt(1), F_2_5)}

\* A primitive another plot item left in the list before this element's.
OtherShape ==
    line_segment(<<[transform |-> "T1", point |-> PlotPoint(F_0_0, F_0_0)],
                   [transform |-> "T1", point |-> PlotPoint(FInt(1), FInt(1))]>>,
                 Stroke(1, Color32("GRAY")))

\* The bounds of the model.
MaxPre == 1
MaxAddShapes == 2
MaxRulerCalls == 2

RECURSIVE Repeat(_, _)
Repeat(v, n) == IF n = 0 THEN <<>> ELSE Append(Repeat(v, n - 1), v)

InitialShapes == {Repeat(OtherShape, n) : n \in 0..MaxPre}

\* An element as its owner sets it up: built, then positioned.
ElemAt(x, c, cw, ww) == [whisker_width(candle_width(new(c), cw), ww) EXCEPT !.x = x]

\* Elements for the capability methods: at x = 3 every width sign and
\* order; at x = 0 a narrow body wider than a negative whisker_width, and
\* a negative body width; and widths that are zeros of different sign.
QueryElems ==
    {ElemAt(FInt(3), CandleBull, cw, ww) :
        cw \in {F_0_4, F_0_0, FNeg(F_0_4)}, ww \in {F_0_15, F_0_5, FNeg(F_0_1)}}
    \cup {ElemAt(F_0_0, c, F_0_005, FNeg(F_0_1)) : c \in {CandleBear, CandleTiny}}
    \cup {ElemAt(F_0_0, c, FNeg(F_0_4), F_0_15) : c \in {CandleBear, CandleTiny}}
    \cup {ElemAt(FNeg(F_0_0), CandleBull, FNeg(F_0_0), F_0_0),
          ElemAt(F_0_0, CandleBull, F_0_0, FNeg(F_0_0))}

\* Scales on the value axis: above, at and below 1, zero, negative, and at
\* and just below powers of ten.
QueryTransforms ==
    {Transform("T1", F_0_1, F_0_05), Transform("T2", FInt(1), F_2_5),
     Transform("T3", F_0_1, F_0_0), Transform("T4", F_0_1, FInt(1)),
     Transform("T5", F_0_1, FNeg(F_0_05)), Transform("T6", F_0_1, F_0_01),
     Transform("T8", F_0_1, F_2m20),
     Transform("T9", F_0_1, F_0_1), Transform("T10", F_0_1, F_0_1_Below1),
     Transform("T11", F_0_1, F_0_1_Below3), Transform("T12", F_0_1, F_0_01_Below1)}

\* ChartPlot, as far as this file reads it: its formatter, if any.
Parents ==
    {[name |-> "P0", element_formatter |-> None],
     [name |-> "P1", element_formatter |-> Some("fmtA")],
     [name |-> "P2", element_formatter |-> Some("fmtB")]}

Plots == {"plot"}

RulerElems == {whisker_width(candle_width(new(c), cw), ww) :
                  c \in Candles, cw \in CandleWidths, ww \in WhiskerWidths}

(***************************************************************************)
(* State                                                                   *)
(***************************************************************************)
VARIABLES
    pc,          \* "build", "frame", "query" or "ruler"
    elem,        \* the CandleElem
    history,     \* per builder field, the last two values set (ghost)
    elem0,       \* the element when the frame began (ghost)
    shapes,      \* the output list of primitives
    shapes0,     \* the list when the frame began (ghost)
    shapesPrev,  \* the list before the last add_shapes call (ghost)
    addCalls,    \* the add_shapes calls made: transform, highlighted (ghost)
    out,         \* the capability methods' last results
    rulerOps,    \* the add_rulers_and_text calls made: parent, plot (ghost)
    fmtCalls,    \* the calls received by the parent's formatter
    rulerCalls   \* the calls received by the shared ruler routine

vars == <<pc, elem, history, elem0, shapes, shapes0, shapesPrev, addCalls,
          out, rulerOps, fmtCalls, rulerCalls>>

NoHistory == [x |-> <<>>, stroke |-> <<>>, fill |-> <<>>,
              candle_width |-> <<>>, whisker_width |-> <<>>]

NoOut == [bounds |-> None, values |-> None, corner |-> None,
          text |-> None, prevText |-> None]

\* The last two of a field's values, oldest first.
Remember(h, v) == IF h = <<>> THEN <<v>> ELSE <<h[Len(h)], v>>

frameVars == <<elem0, shapes, shapes0, shapesPrev, addCalls>>

rulerVars == <<rulerOps, fmtCalls, rulerCalls>>

(***************************************************************************)
(* Specification Spec: an element is built, then drawn                     *)
(***************************************************************************)
Init ==
    /\ pc = "build"
    /\ elem \in {new(c) : c \in Candles}
    /\ history = NoHistory
    /\ elem0 = elem
    /\ shapes = <<>>
    /\ shapes0 = <<>>
    /\ shapesPrev = <<>>
    /\ addCalls = <<>>
    /\ out = NoOut
    /\ rulerOps = <<>>
    /\ fmtCalls = <<>>
    /\ rulerCalls = <<>>

\* The owner of the element positions it: x is a public field.
SetX(x) ==
    /\ pc = "build"
    /\ elem' = [elem EXCEPT !.x = x]
    /\ history' = [history EXCEPT !.x = Remember(@, x)]
    /\ UNCHANGED <<pc, out>> /\ UNCHANGED frameVars /\ UNCHANGED rulerVars

CallStroke(s) ==
    /\ pc = "build"
    /\ elem' = stroke(elem, s)
    /\ history' = [history EXCEPT !.stroke = Remember(@, s)]
    /\ UNCHANGED <<pc, out>> /\ UNCHANGED frameVars /\ UNCHANGED rulerVars

CallFill(c) ==
    /\ pc = "build"
    /\ elem' = fill(elem, c)
    /\ history' = [history EXCEPT !.fill = Remember(@, c)]
    /\ UNCHANGED <<pc, out>> /\ UNCHANGED frameVars /\ UNCHANGED rulerVars

CallCandleWidth(w) ==
    /\ pc = "build"
    /\ elem' = candle_width(elem, w)
    /\ history' = [history EXCEPT !.candle_width = Remember(@, w)]
    /\ UNCHANGED <<pc, out>> /\ UNCHANGED frameVars /\ UNCHANGED rulerVars

CallWhiskerWidth(w) ==
    /\ pc = "build"
    /\ elem' = whisker_width(elem, w)
    /\ history' = [history EXCEPT !.whisker_width = Remember(@, w)]
    /\ UNCHANGED <<pc, out>> /\ UNCHANGED frameVars /\ UNCHANGED rulerVars

\* The frame begins: the builder chain is over and the list holds what the
\* items drawn before this one left in it.
BeginFrame(pre) ==
    /\ pc = "build"
    /\ pc' = "frame"
    /\ history' = NoHistory
    /\ elem0' = elem
    /\ shapes' = pre
    /\ shapes0' = pre
    /\ shapesPrev' = pre
    /\ UNCHANGED <<elem, addCalls, out>> /\ UNCHANGED rulerVars

\* add_shapes(&self, transform, highlighted, shapes)
AddShapes(transform, highlighted) ==
    /\ pc = "frame"
    /\ Len(addCalls) < MaxAddShapes
    /\ shapes' = add_shapes(elem, transform, highlighted, shapes)
    /\ shapesPrev' = shapes
    /\ addCalls' = Append(addCalls, [transform |-> transform, highlighted |-> highlighted])
    /\ UNCHANGED <<pc, elem, history, elem0, shapes0, out>> /\ UNCHANGED rulerVars

Next ==
    \/ \E x \in Xs : SetX(x)
    \/ \E s \in Strokes : CallStroke(s)
    \/ \E c \in Fills : CallFill(c)
    \/ \E w \in CandleWidths : CallCandleWidth(w)
    \/ \E w \in WhiskerWidths : CallWhiskerWidth(w)
    \/ \E pre \in InitialShapes : BeginFrame(pre)
    \/ \E t \in Transforms, h \in BOOLEAN : AddShapes(t, h)

Spec == Init /\ [][Next]_vars

(***************************************************************************)
(* Specification SpecQuery: the capability methods applied to an element   *)
(***************************************************************************)
InitQuery ==
    /\ pc = "query"
    /\ elem \in QueryElems
    /\ history = NoHistory
    /\ elem0 = elem
    /\ shapes = <<>>
    /\ shapes0 = <<>>
    /\ shapesPrev = <<>>
    /\ addCalls = <<>>
    /\ out = NoOut
    /\ rulerOps = <<>>
    /\ fmtCalls = <<>>
    /\ rulerCalls = <<>>

queryUnchanged ==
    /\ UNCHANGED <<pc, elem, history>> /\ UNCHANGED frameVars /\ UNCHANGED rulerVars

\* The two calls take their max each at its own call site.
QueryBounds ==
    /\ pc = "query"
    /\ \E lo \in bounds_min(elem), hi \in bounds_max(elem) :
          out' = [out EXCEPT !.bounds = Some([min |-> lo, max |-> hi])]
    /\ queryUnchanged

QueryValuesWithRuler ==
    /\ pc = "query"
    /\ out' = [out EXCEPT !.values = Some(values_with_ruler(elem))]
    /\ queryUnchanged

QueryCornerValue ==
    /\ pc = "query"
    /\ out' = [out EXCEPT !.corner = Some(corner_value(elem))]
    /\ queryUnchanged

QueryFormat(transform) ==
    /\ pc = "query"
    /\ out' = [out EXCEPT
                 !.text = Some([scale |-> dvalue_dpos(transform)[2],
                                value |-> default_values_format(elem, transform)]),
                 !.prevText = out.text]
    /\ queryUnchanged

NextQuery ==
    \/ QueryBounds
    \/ QueryValuesWithRuler
    \/ QueryCornerValue
    \/ \E t \in QueryTransforms : QueryFormat(t)

SpecQuery == InitQuery /\ [][NextQuery]_vars

(***************************************************************************)
(* Specification SpecRuler: add_rulers_and_text on a hovered element       *)
(***************************************************************************)
InitRuler ==
    /\ pc = "ruler"
    /\ elem \in RulerElems
    /\ history = NoHistory
    /\ elem0 = elem
    /\ shapes \in InitialShapes
    /\ shapes0 = shapes
    /\ shapesPrev = shapes
    /\ addCalls = <<>>
    /\ out = NoOut
    /\ rulerOps = <<>>
    /\ fmtCalls = <<>>
    /\ rulerCalls = <<>>

\* add_rulers_and_text(&self, parent, plot, shapes)
AddRulersAndText(parent, plot) ==
    /\ pc = "ruler"
    /\ Len(rulerOps) < MaxRulerCalls
    /\ LET calls == add_rulers_and_text(elem, parent, plot, shapes)
       IN  /\ fmtCalls' = fmtCalls \o calls.formatter
           /\ rulerCalls' = rulerCalls \o calls.rulers
           /\ shapes' \in calls.shapes
    /\ shapesPrev' = shapes
    /\ rulerOps' = Append(rulerOps, [parent |-> parent, plot |-> plot])
    /\ UNCHANGED <<pc, elem, history, out, elem0, shapes0, addCalls>>

NextRuler == \E p \in Parents, plot \in Plots : AddRulersAndText(p, plot)

SpecRuler == InitRuler /\ [][NextRuler]_vars

(***************************************************************************)
(* Helpers of the properties                                               *)
(***************************************************************************)
\* p lies in [lo, hi].
Within(lo, hi, p) == FLeq(lo, p) /\ FLeq(p, hi)

\* Exact numbers <<sign, magnitude, exponent>>, as ExactAdd gives them.
ExactOf(u) == <<u[1], FMant(u), FExp(u)>>

\* u - v without the rounding of f64.
ExactSub(u, v) == ExactAdd(u, FNeg(v))

\* Whether two exact numbers are the same number.
SameNumber(p, q) ==
    LET x == IF p[3] < q[3] THEN p[3] ELSE q[3]
    IN  /\ BigShl(p[2], p[3] - x) = BigShl(q[2], q[3] - x)
        /\ p[1] = q[1] \/ p[2] = <<>>

\* |p| <= |q| for two exact numbers.
MagnitudeLeq(p, q) ==
    LET x == IF p[3] < q[3] THEN p[3] ELSE q[3]
    IN  BigLeq(BigShl(p[2], p[3] - x), BigShl(q[2], q[3] - x))

\* The f64 r is the exact number p: the operation that gave r did not round.
Unrounded(r, p) == SameNumber(ExactOf(r), p)

\* An f64 that is a number and not an infinity.
Finite(u) == ~FIsNaN(u) /\ ~FIsInf(u)

\* The larger of |u| and |v|, for two f64 that are not NaN.
LargerMagnitude(u, v) == IF FLess(FAbs(u), FAbs(v)) THEN FAbs(v) ELSE FAbs(u)

\* Whether the larger width, whichever zero a max of zeros gives, is at
\* least the magnitude of each of the two widths.
LargerCoversBoth(e) ==
    \A w \in FMax(e.candle_width, e.whisker_width) :
        FLeq(FAbs(e.candle_width), w) /\ FLeq(FAbs(e.whisker_width), w)

\* Twice the unit in the last place of the finite f64 u.
TwoUlps(u) == <<0, <<2>>, FExp(u)>>

LastOr(h, default) == IF h = <<>> THEN default ELSE h[Len(h)]

\* The pieces of a text between its newlines, in order.
SplitLines(t) ==
    LET cuts == {0, Len(t) + 1} \cup {i \in 1..Len(t) : t[i] = NL}
        from(k) == CHOOSE p \in cuts : Cardinality({q \in cuts : q < p}) = k - 1
        upto(k) == CHOOSE p \in cuts : Cardinality({q \in cuts : q < p}) = k
    IN  [k \in 1..(Cardinality(cuts) - 1) |-> SubSeq(t, from(k) + 1, upto(k) - 1)]

StartsWith(t, prefix) ==
    Len(t) >= Len(prefix) /\ SubSeq(t, 1, Len(prefix)) = prefix

\* The number of digits a printed number has after its decimal point.
DecimalsOf(t) ==
    LET dots == {i \in 1..Len(t) : t[i] = "."}
    IN  IF dots = {} THEN 0 ELSE Len(t) - (CHOOSE i \in dots : TRUE)

\* |s| * 10^d >= 1, for a finite s, in exact arithmetic.
ReachesOne(s, d) ==
    IF FExp(s) >= 0 THEN FMant(s) # <<>>
    ELSE BigLeq(BigShl(<<1>>, -FExp(s)), Mul10(FMant(s), d))

\* clamp(ceil(-log10(|s|)), 0, 6) of the real numbers, by its meaning: 0
\* when |s| >= 1, else the d in 1..6 with 10^-d <= |s| < 10^-(d-1), 6 when
\* |s| < 10^-6.
ClampedDecimals(s) ==
    IF ReachesOne(s, 0) THEN 0
    ELSE CHOOSE d \in 1..6 : ~ReachesOne(s, d - 1) /\ (d = 6 \/ ReachesOne(s, d))

\* |s| * 10^d >= 1 - 2^-49: |s| is 10^-d but for the last bits of an f64.
NearlyOne(s, d) ==
    FExp(s) < 0 /\ BigLeq(BigShl(BigSub(BigShl(<<1>>, 49), <<1>>), -FExp(s)),
                          BigShl(Mul10(FMant(s), d), 49))

\* The element of the spec's example.
ExampleElem ==
    [x |-> FInt(3), candle |-> CandleBull, candle_width |-> F_0_4,
     whisker_width |-> F_0_15, stroke |-> Stroke(1, TRANSPARENT), fill |-> TRANSPARENT]

(***************************************************************************)
(* Properties of bounds_min / bounds_max (SpecQuery)                       *)
(***************************************************************************)
\* C1, as stated: bounds_min is (x - max(candle_width, whisker_width)/2, low)
\* and bounds_max is (x + max(candle_width, whisker_width)/2, high), and
\* bounds_max.x - bounds_min.x == max(candle_width, whisker_width); the
\* example element has bounds (2.8, 9) and (3.2, 12).
C1_BoundsAsStated ==
    out.bounds # None =>
        LET b == out.bounds[1]
            ws == FMax(elem.candle_width, elem.whisker_width)
        IN  /\ \E w \in ws : b.min = [x |-> FSub(elem.x, FHalf(w)), y |-> elem.candle.low]
            /\ \E w \in ws : b.max = [x |-> FAdd(elem.x, FHalf(w)), y |-> elem.candle.high]
            /\ \A w \in ws : FEq(FSub(b.max.x, b.min.x), w)
            /\ elem = ExampleElem =>
                  /\ b.min = [x |-> F_2_8, y |-> FInt(9)]
                  /\ b.max = [x |-> F_3_2, y |-> FInt(12)]

\* C1, amended: bounds_min is (x - max(candle_width, whisker_width)/2, low)
\* and bounds_max is (x + max(candle_width, whisker_width)/2, high), each x
\* being the f64 difference or sum; bounds_max.x - bounds_min.x equals the
\* larger width when neither x (nor the halving) was rounded, and is
\* otherwise within two units in the last place of the larger bound of it;
\* the max of two zeros of different sign being either zero, in each of
\* the two points on its own; the example element has bounds (2.8, 9) and
\* (3.2, 12).
C1_Bounds ==
    out.bounds # None =>
        LET b == out.bounds[1]
            ws == FMax(elem.candle_width, elem.whisker_width)
            d == FSub(b.max.x, b.min.x)
            big == LargerMagnitude(b.min.x, b.max.x)
        IN  /\ \E w \in ws : b.min = [x |-> FSub(elem.x, FHalf(w)), y |-> elem.candle.low]
            /\ \E w \in ws : b.max = [x |-> FAdd(elem.x, FHalf(w)), y |-> elem.candle.high]
            /\ \A w \in ws :
                  /\ (/\ Unrounded(FHalf(w), <<w[1], FMant(w), FExp(w) - 1>>)
                      /\ Unrounded(b.min.x, ExactSub(elem.x, FHalf(w)))
                      /\ Unrounded(b.max.x, ExactAdd(elem.x, FHalf(w)))) => FEq(d, w)
                  /\ MagnitudeLeq(ExactSub(d, w), TwoUlps(big))
            /\ elem = ExampleElem =>
                  /\ b.min = [x |-> F_2_8, y |-> FInt(9)]
                  /\ b.max = [x |-> F_3_2, y |-> FInt(12)]

\* C1's case: the bounds of the example element, where whisker_width is the
\* smaller width and both x are rounded.
C1_Witness ==
    /\ out.bounds # None
    /\ elem = ExampleElem
    /\ ~Unrounded(out.bounds[1].min.x, ExactSub(elem.x, FHalf(elem.candle_width)))

\* C2, as stated: whatever the widths, [bounds_min.x, bounds_max.x] contains
\* the x of both corners of the body rectangle of add_shapes and both ends
\* of the whisker padding interval.
C2_ContainsAsStated ==
    out.bounds # None =>
        LET b == out.bounds[1]
        IN  /\ Within(b.min.x, b.max.x, FSub(elem.x, FHalf(elem.candle_width)))
            /\ Within(b.min.x, b.max.x, FAdd(elem.x, FHalf(elem.candle_width)))
            /\ Within(b.min.x, b.max.x, FSub(elem.x, FHalf(elem.whisker_width)))
            /\ Within(b.min.x, b.max.x, FAdd(elem.x, FHalf(elem.whisker_width)))

\* C2, amended: the same containment, for the elements with finite x and
\* widths whose larger width is at least the magnitude of each width; these
\* are all the finite elements whose widths are both zero or more,
\* whisker_width > candle_width included.
C2_Contains ==
    (/\ out.bounds # None
     /\ Finite(elem.x) /\ Finite(elem.candle_width) /\ Finite(elem.whisker_width)
     /\ LargerCoversBoth(elem)) =>
        /\ C2_ContainsAsStated
        /\ FLeq(out.bounds[1].min.x, out.bounds[1].max.x)

\* Both widths zero or more is a case of C2_Contains's condition.
C2_NonNegativeCovered ==
    (FLeq(F_0_0, elem.candle_width) /\ FLeq(F_0_0, elem.whisker_width)) =>
        LargerCoversBoth(elem)

\* C2's case: the bounds of an element with a zero candle_width and a wider
\* whisker_width.
C2_Witness ==
    /\ out.bounds # None
    /\ elem.candle_width = F_0_0
    /\ elem.whisker_width = F_0_5
    /\ elem.x = FInt(3)

(***************************************************************************)
(* Properties of values_with_ruler / corner_value (SpecQuery)              *)
(***************************************************************************)
\* C7: values_with_ruler returns exactly 5 points, each with the element's
\* x, with y open, high, low, close, volume in that order; corner_value is
\* (x, high), the second of them; the example element at x = 3 gives
\* (3,10), (3,12), (3,9), (3,11), (3,500).
C7_RulerValues ==
    /\ out.values # None =>
          /\ Len(out.values[1]) = 5
          /\ out.values[1] = <<[x |-> elem.x, y |-> elem.candle.open],
                               [x |-> elem.x, y |-> elem.candle.high],
                               [x |-> elem.x, y |-> elem.candle.low],
                               [x |-> elem.x, y |-> elem.candle.close],
                               [x |-> elem.x, y |-> elem.candle.volume]>>
          /\ elem = ExampleElem =>
                out.values[1] = <<[x |-> FInt(3), y |-> FInt(10)],
                                  [x |-> FInt(3), y |-> FInt(12)],
                                  [x |-> FInt(3), y |-> FInt(9)],
                                  [x |-> FInt(3), y |-> FInt(11)],
                                  [x |-> FInt(3), y |-> FInt(500)]>>
    /\ out.corner # None => out.corner[1] = [x |-> elem.x, y |-> elem.candle.high]
    /\ (out.values # None /\ out.corner # None) => out.values[1][2] = out.corner[1]

\* C7's case: both methods applied to the example element.
C7_Witness ==
    /\ out.values # None
    /\ out.corner # None
    /\ elem = ExampleElem

(***************************************************************************)
(* Properties of default_values_format (SpecQuery)                         *)
(***************************************************************************)
\* The printed numbers of a text: its lines that are not empty.
NumberLines(t) ==
    LET lines == SplitLines(t)
    IN  {lines[i] : i \in {j \in 1..Len(lines) : lines[j] # <<>>}}

\* The decimal count of a text: that of its first number.
PrintedDecimals(t) == DecimalsOf(SplitLines(t)[2])

\* C5, as stated: every number of the text has clamp(ceil(-log10(|scale|)),
\* 0, 6) decimals: a count in 0..6, 0 for |scale| >= 1, 6 for scale = 0, 2
\* for scale 0.05; and of two texts, the one of the scale smaller in
\* magnitude has at least as many decimals.
C5_DecimalsAsStated ==
    out.text # None =>
        LET s == out.text[1].scale
            n == ClampedDecimals(s)
        IN  /\ \A line \in NumberLines(out.text[1].value) : DecimalsOf(line) = n
            /\ n \in 0..6
            /\ FLeq(FInt(1), FAbs(s)) => n = 0
            /\ s = F_0_0 => n = 6
            /\ s = F_0_05 => n = 2
            /\ out.prevText # None =>
                  LET k1 == PrintedDecimals(out.prevText[1].value)
                      k2 == PrintedDecimals(out.text[1].value)
                  IN  /\ FLeq(FAbs(out.prevText[1].scale), FAbs(s)) => k1 >= k2
                      /\ FLeq(FAbs(s), FAbs(out.prevText[1].scale)) => k1 <= k2

\* C5, amended: every number of the text has the same count k of decimals,
\* in 0..6; k is clamp(ceil(-log10(|scale|)), 0, 6), or one less than it
\* when |scale| is a power of ten 10^-k, k >= 1, but for the last bits of
\* an f64 (the f64 logarithm of such a scale is -k itself); k is 0 for
\* |scale| >= 1, 6 for scale = 0, 2 for scale 0.05; and of two texts, the
\* one of the scale smaller in magnitude has at least as many decimals.
C5_Decimals ==
    out.text # None =>
        LET s == out.text[1].scale
            n == ClampedDecimals(s)
            k == PrintedDecimals(out.text[1].value)
        IN  /\ \A line \in NumberLines(out.text[1].value) : DecimalsOf(line) = k
            /\ k \in 0..6
            /\ k = n \/ (k = n - 1 /\ k >= 1 /\ NearlyOne(s, k))
            /\ FLeq(FInt(1), FAbs(s)) => k = 0
            /\ s = F_0_0 => k = 6
            /\ s = F_0_05 => k = 2
            /\ out.prevText # None =>
                  LET k1 == PrintedDecimals(out.prevText[1].value)
                  IN  /\ FLeq(FAbs(out.prevText[1].scale), FAbs(s)) => k1 >= k
                      /\ FLeq(FAbs(s), FAbs(out.prevText[1].scale)) => k1 <= k

\* C5's case: a text at scale 0.09999999999999999, printed with 1 decimal
\* where the real logarithm asks for 2, after one at scale 0.05, for a
\* candle with fractional prices.
C5_Witness ==
    /\ out.text # None
    /\ out.prevText # None
    /\ out.text[1].scale = F_0_1_Below1
    /\ out.prevText[1].scale = F_0_05
    /\ elem.candle = CandleBear
    /\ PrintedDecimals(out.text[1].value) = 1
    /\ ClampedDecimals(out.text[1].scale) = 2

\* The text of the five numbers printed with d decimals, with no newline
\* before its first line.
FiveLines(c, d) ==
    TxtOpen \o FormatFixed(c.open, d) \o <<NL>>
    \o TxtHigh \o FormatFixed(c.high, d) \o <<NL>>
    \o TxtLow \o FormatFixed(c.low, d) \o <<NL>>
    \o TxtClose \o FormatFixed(c.close, d) \o <<NL>>
    \o TxtVolume \o FormatFixed(c.volume, d)

\* C6, as stated: the text is exactly the five lines "Open = ", "High = ",
\* "Low = ", "Close = ", "Volume = " with their numbers, in that order,
\* joined by single newlines, beginning with "Open = ", all five numbers
\* with the same decimal count.
C6_FiveLinesAsStated ==
    out.text # None =>
        /\ StartsWith(out.text[1].value, TxtOpen)
        /\ Len(SplitLines(out.text[1].value)) = 5
        /\ \E d \in 0..6 : out.text[1].value = FiveLines(elem.candle, d)

\* What the code does instead: the same five lines after one newline.
C6_FiveLinesAfterNewline ==
    out.text # None =>
        /\ out.text[1].value =
              <<NL>> \o FiveLines(elem.candle, PrintedDecimals(out.text[1].value))
        /\ Len(SplitLines(out.text[1].value)) = 6
        /\ SplitLines(out.text[1].value)[1] = <<>>

(***************************************************************************)
(* Properties of the builder (Spec)                                        *)
(***************************************************************************)
\* C8: new(candle) has x = 0.0, candle_width = 0.25, whisker_width = 0.15,
\* a transparent stroke and fill and the candle given; after any chain of
\* builder calls each field holds the value of the last call that set it,
\* or that default if none did, and the candle is the one given (x holds
\* what its owner last assigned, or 0.0).
C8_Builder ==
    pc = "build" =>
        /\ elem.candle = elem0.candle
        /\ elem0 = [x |-> F_0_0, candle |-> elem0.candle, candle_width |-> F_0_25,
                    whisker_width |-> F_0_15,
                    stroke |-> [width |-> 1, color |-> [name |-> "TRANSPARENT", emphasized |-> FALSE]],
                    fill |-> [name |-> "TRANSPARENT", emphasized |-> FALSE]]
        /\ elem.x = LastOr(history.x, elem0.x)
        /\ elem.stroke = LastOr(history.stroke, elem0.stroke)
        /\ elem.fill = LastOr(history.fill, elem0.fill)
        /\ elem.candle_width = LastOr(history.candle_width, elem0.candle_width)
        /\ elem.whisker_width = LastOr(history.whisker_width, elem0.whisker_width)

\* C8's case: candle_width set twice to different values, stroke and
\* whisker_width set, fill never set.
C8_Witness ==
    /\ pc = "build"
    /\ Len(history.candle_width) = 2
    /\ history.candle_width[1] # history.candle_width[2]
    /\ history.stroke # <<>>
    /\ history.whisker_width # <<>>
    /\ history.fill = <<>>

(***************************************************************************)
(* Properties of add_shapes (Spec)                                         *)
(***************************************************************************)
\* The primitives the i-th add_shapes call of the frame left in the list.
RectOf(i) == shapes[Len(shapes0) + 2 * i - 1]

WhiskerOf(i) == shapes[Len(shapes0) + 2 * i]

\* C3: after n add_shapes calls on a list of initial length k the list has
\* k + 2n primitives and its first k are the initial ones; each call
\* appended 2 primitives to the list it was given and left that list's
\* primitives as they were, whatever the flag and the candle's direction.
C3_AppendsTwo ==
    pc = "frame" =>
        /\ Len(shapes) = Len(shapes0) + 2 * Len(addCalls)
        /\ SubSeq(shapes, 1, Len(shapes0)) = shapes0
        /\ addCalls # <<>> =>
              /\ Len(shapes) = Len(shapesPrev) + 2
              /\ SubSeq(shapes, 1, Len(shapesPrev)) = shapesPrev

\* C3's case: two calls with different flags for a bearish candle, on a
\* list that was not empty.
C3_Witness ==
    /\ pc = "frame"
    /\ Len(addCalls) = 2
    /\ addCalls[1].highlighted # addCalls[2].highlighted
    /\ shapes0 # <<>>
    /\ FLess(elem.candle.close, elem.candle.open)

\* C4: the element is as it was when the frame began, and each call's two
\* primitives carry the element's own stroke (the rectangle its own fill)
\* when that call's flag is false, the highlight helper's pair when it is
\* true, whatever the flags of the calls before it.
C4_HighlightPerCall ==
    pc = "frame" =>
        /\ elem = elem0
        /\ \A i \in 1..Len(addCalls) :
              LET sf == IF addCalls[i].highlighted
                        THEN highlighted_color(elem0.stroke, elem0.fill)
                        ELSE <<elem0.stroke, elem0.fill>>
              IN  /\ RectOf(i).stroke = sf[1]
                  /\ RectOf(i).fill = sf[2]
                  /\ WhiskerOf(i).stroke = sf[1]

\* C4's case: a call with highlighted = false after one with highlighted =
\* true, on an element with a stroke and fill of its own.
C4_Witness ==
    /\ pc = "frame"
    /\ Len(addCalls) = 2
    /\ addCalls[1].highlighted
    /\ ~addCalls[2].highlighted
    /\ elem.stroke \in Strokes
    /\ elem.fill \in Fills
    /\ WhiskerOf(2).stroke = elem.stroke
    /\ WhiskerOf(1).stroke # elem.stroke

\* C10: each call appends, in this order, a rectangle without rounding
\* built from the transform of (x - candle_width/2, open) and of
\* (x + candle_width/2, close), then a line segment from the transform of
\* (x, low) to the transform of (x, high); for a bearish candle as for a
\* bullish one.
C10_BodyThenWhisker ==
    pc = "frame" =>
        \A i \in 1..Len(addCalls) :
            LET t == addCalls[i].transform.name
                h == FHalf(elem.candle_width)
            IN  /\ RectOf(i).kind = "Rect"
                /\ RectOf(i).rounding = "none"
                /\ RectOf(i).rect =
                     [corner1 |-> [transform |-> t,
                                   point |-> [x |-> FSub(elem.x, h), y |-> elem.candle.open]],
                      corner2 |-> [transform |-> t,
                                   point |-> [x |-> FAdd(elem.x, h), y |-> elem.candle.close]]]
                /\ WhiskerOf(i).kind = "LineSegment"
                /\ WhiskerOf(i).points =
                     <<[transform |-> t, point |-> [x |-> elem.x, y |-> elem.candle.low]],
                       [transform |-> t, point |-> [x |-> elem.x, y |-> elem.candle.high]]>>

\* C10's case: a bearish candle away from x = 0 whose two widths differ,
\* drawn through two transforms.
C10_Witness ==
    /\ pc = "frame"
    /\ Len(addCalls) = 2
    /\ addCalls[1].transform # addCalls[2].transform
    /\ FLess(elem.candle.close, elem.candle.open)
    /\ elem.x = FInt(3)
    /\ elem.candle_width = F_0_4
    /\ elem.whisker_width = F_0_5

(***************************************************************************)
(* Properties of add_rulers_and_text (SpecRuler)                           *)
(***************************************************************************)
\* The add_rulers_and_text calls whose parent held a formatter.
WithFormatter == SelectSeq(rulerOps, LAMBDA o : o.parent.element_formatter # None)

\* C9: each add_rulers_and_text call calls the shared ruler routine once,
\* with this element, the plot and the list; with a formatter in the
\* parent, the formatter is called once with this element and the parent
\* and its result is the text passed; with none, the formatter is not
\* called and the text passed is None.
C9_OneRulerCall ==
    pc = "ruler" =>
        /\ Len(rulerCalls) = Len(rulerOps)
        /\ \A i \in 1..Len(rulerOps) :
              LET p == rulerOps[i].parent
              IN  /\ rulerCalls[i].elem = elem
                  /\ rulerCalls[i].plot = rulerOps[i].plot
                  /\ rulerCalls[i].text =
                        IF p.element_formatter = <<>> THEN <<>>
                        ELSE <<[formatter |-> p.element_formatter[1],
                                elem |-> elem, parent |-> p.name]>>
        /\ rulerOps # <<>> => rulerCalls[Len(rulerCalls)].shapes = shapesPrev
        /\ Len(fmtCalls) = Len(WithFormatter)
        /\ \A j \in 1..Len(WithFormatter) :
              fmtCalls[j] = [formatter |-> WithFormatter[j].parent.element_formatter[1],
                             elem |-> elem, parent |-> WithFormatter[j].parent.name]

\* C9's case: a call with a parent without a formatter, then one with a
\* parent that holds one.
C9_Witness ==
    /\ pc = "ruler"
    /\ Len(rulerOps) = 2
    /\ rulerOps[1].parent.element_formatter = <<>>
    /\ rulerOps[2].parent.element_formatter # <<>>
    /\ Len(rulerCalls) = 2
    /\ Len(fmtCalls) = 1

====
